---------------------------- MODULE Spec2Model ----------------------------
(***************************************************************************)
(* A model of recipe-units (src/units.py): alias matching of unit texts,   *)
(* affine conversion to and from SI, the registry of unit sets, and the    *)
(* ingredient layer that bridges volume and mass through a density.        *)
(*                                                                         *)
(* Texts are TLA+ strings; a character is a string of length one.          *)
(* Numbers are exact rationals [num, den] in lowest terms                   *)
(* with a positive denominator: the program computes in binary floating    *)
(* point, the model in exact arithmetic.                                   *)
(***************************************************************************)
EXTENDS Integers, Sequences, FiniteSets, TLC

VARIABLES uh, ingredients, call

vars == <<uh, ingredients, call>>

(* Python's None. *)
None == [tag |-> "None"]

(* An optional text argument: Omitted when the caller leaves it at its     *)
(* default of None, Given(text) otherwise.                                 *)
Omitted == <<>>
Given(text) == <<text>>

(***************************************************************************)
(* Exact rational arithmetic.                                              *)
(***************************************************************************)
Abs(n) == IF n < 0 THEN -n ELSE n

RECURSIVE GCD(_, _)
GCD(a, b) == IF b = 0 THEN a ELSE GCD(b, a % b)

Rat(n, d) ==
    LET g == GCD(Abs(n), Abs(d))
        s == IF d < 0 THEN -1 ELSE 1
    IN  [num |-> (s * n) \div g, den |-> (s * d) \div g]

Zero == Rat(0, 1)
One == Rat(1, 1)

RMul(x, y) ==
    LET g1 == GCD(Abs(x.num), y.den)
        g2 == GCD(Abs(y.num), x.den)
    IN  Rat((x.num \div g1) * (y.num \div g2), (x.den \div g2) * (y.den \div g1))

RInv(x) == Rat(x.den, x.num)

RDiv(x, y) == RMul(x, RInv(y))

RAdd(x, y) ==
    LET g == GCD(x.den, y.den)
        l == (x.den \div g) * y.den
    IN  Rat(x.num * (l \div x.den) + y.num * (l \div y.den), l)

RNeg(x) == [num |-> -x.num, den |-> x.den]

RSub(x, y) == RAdd(x, RNeg(y))

(***************************************************************************)
(* Characters and the fragment of Python's re that the program uses.       *)
(***************************************************************************)
UpperLetters == "ABCDEFGHIJKLMNOPQRSTUVWXYZ"
LowerLetters == "abcdefghijklmnopqrstuvwxyz"
Digits == "0123456789"

Char(s, i) == SubSeq(s, i, i)

Chars(s) == {Char(s, i) : i \in 1..Len(s)}

(* re.IGNORECASE on ASCII text: letters compare by their lower-case form. *)
Fold ==
    [c \in Chars(UpperLetters) |->
        Char(LowerLetters, CHOOSE i \in 1..Len(UpperLetters) : Char(UpperLetters, i) = c)]

FoldChar(c) == IF c \in DOMAIN Fold THEN Fold[c] ELSE c

(* The backspace character, U+0008, written here as itself.  In the      *)
(* program's pattern 's?\.?($|\b)', an ordinary (not raw) Python string   *)
(* literal, the escape \b is this character and not the regex anchor for  *)
(* a word boundary.                                                        *)
Backspace == ""

(* One pattern character against one text character.  The program pastes   *)
(* an alias into the pattern unescaped, so "." in an alias is the regex    *)
(* wildcard (any character but a newline); "." is the only metacharacter   *)
(* in the tables.                                                          *)
CharMatch(p, c, ignorecase) ==
    IF p = "." THEN c # "\n"
    ELSE IF ignorecase THEN FoldChar(p) = FoldChar(c)
    ELSE p = c

(* The pattern n, one text character per pattern character, matches the    *)
(* text from position pos on.                                              *)
PatternAt(n, string, pos, ignorecase) ==
    /\ pos + Len(n) - 1 <= Len(string)
    /\ \A i \in 1..Len(n) : CharMatch(Char(n, i), Char(string, pos + i - 1), ignorecase)

(* "$": the end of the string, or just before a newline that ends it. *)
AtEnd(string, pos) ==
    \/ pos = Len(string) + 1
    \/ pos = Len(string) /\ Char(string, pos) = "\n"

(* The group ($|\b) of the pattern as Python builds it: the end of the    *)
(* string, or a backspace character.                                       *)
EndOrBackspace(string, pos) ==
    \/ AtEnd(string, pos)
    \/ pos <= Len(string) /\ Char(string, pos) = Backspace

(* re.match(n + 's?\.?($|\b)', string [, re.IGNORECASE]): the regex engine *)
(* backtracks over the two optional characters, so the pattern matches     *)
(* when some choice of them does; re.match anchors at the start only.      *)
ReMatchUnit(n, string, ignorecase) ==
    /\ PatternAt(n, string, 1, ignorecase)
    /\ \E s \in {0, 1}, d \in {0, 1} :
        LET e == Len(n) + 1 IN
        /\ s = 1 => (e <= Len(string) /\ CharMatch("s", Char(string, e), ignorecase))
        /\ d = 1 => (e + s <= Len(string) /\ Char(string, e + s) = ".")
        /\ EndOrBackspace(string, e + s + d)

(* re.search(n, string) is not None. *)
ReSearch(n, string) ==
    \E pos \in 1..(Len(string) + 1) : PatternAt(n, string, pos, FALSE)

(***************************************************************************)
(* Unit: a name, its aliases, and the affine map to the SI base unit.      *)
(***************************************************************************)
SI_units == {"meter", "kilogram", "second", "liter", "kelvin", "unknown"}

(* ureg.parse_expression(name).to(SI_unit).magnitude: the ratio the        *)
(* external unit library yields when a Unit is built without SI_ratio.     *)
(* The library is not part of the repository; the metric ratios are exact, *)
(* the customary ones follow the documented cup of 0.23659 liter (teaspoon *)
(* 1/48, tablespoon 1/16, fluid ounce 1/8 of a cup; pint 2, quart 4,       *)
(* gallon 16 cups) and the documented pound of 0.4536 kilogram.            *)
PintRatio(name) ==
    CASE name = "liter" -> Rat(1, 1)
      [] name = "deciliter" -> Rat(1, 10)
      [] name = "milliliter" -> Rat(1, 1000)
      [] name = "teaspoon" -> Rat(23659, 4800000)
      [] name = "tablespoon" -> Rat(23659, 1600000)
      [] name = "fluid ounce" -> Rat(23659, 800000)
      [] name = "cup" -> Rat(23659, 100000)
      [] name = "pint" -> Rat(23659, 50000)
      [] name = "quart" -> Rat(23659, 25000)
      [] name = "gallon" -> Rat(23659, 6250)
      [] name = "kilogram" -> Rat(1, 1)
      [] name = "gram" -> Rat(1, 1000)
      [] name = "pound" -> Rat(567, 1250)

(* Unit.__init__ *)
Unit(name, SI_unit, allnames, SI_ratio, SI_offset, case_sensitive) ==
    [name |-> name,
     SI_ratio |-> IF SI_ratio = None THEN PintRatio(name) ELSE SI_ratio,
     SI_offset |-> SI_offset,
     SI_unit |-> SI_unit,
     allnames |-> allnames,
     case_sensitive |-> case_sensitive]

(* a plausible slip: the case_sensitive flag ignored *)
match_ignoring_case(self, string) ==
    \E n \in self.allnames : ReMatchUnit(n, string, TRUE)

(* Unit.match, with case_sensitive left at its default *)
match(self, string) ==
    IF self.case_sensitive
    THEN \E n \in self.allnames : ReMatchUnit(n, string, FALSE)
    ELSE \E n \in self.allnames : ReMatchUnit(n, string, TRUE)

(* Unit.convert_to_SI *)
convert_to_SI(self, magnitude) ==
    RAdd(RMul(magnitude, self.SI_ratio), self.SI_offset)

(* a plausible slip: the offset taken off after the division *)
convert_from_SI_offset_last(self, magnitude) ==
    RSub(RDiv(magnitude, self.SI_ratio), self.SI_offset)

(* Unit.convert_from_SI *)
convert_from_SI(self, magnitude) ==
    RDiv(RSub(magnitude, self.SI_offset), self.SI_ratio)

(***************************************************************************)
(* UnitsHandler.__init__: the three unit sets, in the order of the source. *)
(***************************************************************************)
VolumeUnits ==
    << Unit("liter", "liter", {"liter", "litre", "l", "litr", "ltr"}, None, Zero, FALSE),
       Unit("deciliter", "liter", {"deciliter", "decilitre", "dl"}, None, Zero, FALSE),
       Unit("milliliter", "liter", {"milliliter", "millilitre", "ml", "cc"}, None, Zero, FALSE),
       Unit("drop", "liter", {"drop", "d", "dr", "gt", "gtt"}, Rat(1, 20000), Zero, FALSE),
       Unit("smidgen", "liter", {"smidgen", "smidge", "smidg", "smdgn", "smdg", "smi"},
            Rat(116, 1000000), Zero, FALSE),
       Unit("pinch", "liter", {"pinch"}, Rat(231, 1000000), Zero, FALSE),
       Unit("dash", "liter", {"dash", "dsh"}, Rat(462, 1000000), Zero, FALSE),
       Unit("saltspoon", "liter", {"saltspoon", "scruple", "ssp"}, Rat(924, 1000000), Zero, FALSE),
       Unit("coffeespoon", "liter", {"coffeespoon", "csp", "cfespn"}, Rat(924, 1000000), Zero, FALSE),
       Unit("fluid dram", "liter", {"fluid dram", "fl.dr", "fl. dr", "fldr", "fl dr"},
            Rat(924, 1000000), Zero, FALSE),
       Unit("teaspoon", "liter", {"teaspoon", "Teaspoon", "t", "tsp", "ts"}, None, Zero, TRUE),
       Unit("dessertspoon", "liter", {"dessertspoon", "dsp", "dstspn", "dssp", "dsspn", "dspn"},
            Rat(1, 100), Zero, FALSE),
       Unit("tablespoon", "liter",
            {"tablespoon", "Tablespoon", "tbl", "tblspn", "tbspn", "tb", "tbs", "tbsp", "T",
             "TB", "Tbsp", "Tblsp", "Tbl", "Tbs", "TBsp", "TBl"}, None, Zero, TRUE),
       Unit("fluid ounce", "liter", {"fluid ounce", "ounce", "fl oz", "floz", "fl. oz", "oz"},
            None, Zero, FALSE),
       Unit("wineglass", "liter", {"wineglass", "wine glass", "wgf", "wg", "winegl", "wngl"},
            Rat(5915, 100000), Zero, FALSE),
       Unit("teacup", "liter", {"teacup", "gill", "tcf", "tc", "teac"}, Rat(1189, 10000), Zero, FALSE),
       Unit("cup", "liter", {"cup", "c", "cu"}, None, Zero, FALSE),
       Unit("pint", "liter", {"pint", "pnt", "p", "pt", "flpt", "fl pt", "fl. pt", "fl.pt"},
            None, Zero, FALSE),
       Unit("quart", "liter", {"quart", "quarts", "q", "qt", "fl qt", "fl. qt", "fl.qt"},
            None, Zero, FALSE),
       Unit("pottle", "liter", {"pottle", "ptl"}, Rat(1892, 1000), Zero, FALSE),
       Unit("gallon", "liter", {"gallon", "g", "ga", "gal", "gall"}, None, Zero, FALSE) >>

(* The placeholder units the constructor builds and adds to no set. *)
MiscUnits ==
    << Unit("package", "liter", {"package"}, Rat(-1, 1), Rat(-1, 1), FALSE),
       Unit("bag", "liter", {"bag"}, Rat(-1, 1), Rat(-1, 1), FALSE),
       Unit("can", "liter", {"can", "cn"}, Rat(-1, 1), Rat(-1, 1), FALSE) >>

MassUnits ==
    << Unit("kilogram", "kilogram", {"kilogram", "kg", "kgr", "kigr"}, None, Zero, FALSE),
       Unit("gram", "kilogram", {"gram", "g", "gr"}, None, Zero, FALSE),
       Unit("pound", "kilogram", {"pound", "lb", "lbs"}, None, Zero, FALSE) >>

TemperatureUnits ==
    << Unit("fahrenheit", "kelvin", {"F", "degF", "deg F"}, Rat(5, 9), Rat(255372, 1000), FALSE),
       Unit("celsius", "kelvin", {"C", "degC", "deg C"}, Rat(1, 1), Rat(27315, 100), FALSE),
       Unit("kelvin", "kelvin", {"C", "degC", "deg C"}, Rat(1, 1), Rat(1, 1), FALSE) >>

(* UnitSet.__init__ followed by the constructor's units.append calls *)
UnitSet(name, SI_unit, units) ==
    [name |-> name, SI_unit |-> SI_unit, units |-> units]

UnitsHandler ==
    [volume |-> UnitSet("volume", "liter", VolumeUnits),
     mass |-> UnitSet("mass", "kilogram", MassUnits),
     temperature |-> UnitSet("temperature", "kelvin", TemperatureUnits)]

(***************************************************************************)
(* UnitSet: first match in insertion order, and conversion within a set.   *)
(***************************************************************************)
RECURSIVE match_unit_from(_, _, _)
match_unit_from(units, i, string) ==
    IF i > Len(units) THEN None
    ELSE IF match(units[i], string) THEN units[i]
    ELSE match_unit_from(units, i + 1, string)

(* UnitSet.match_unit *)
match_unit(self, string) == match_unit_from(self.units, 1, string)

Returned(value) == [raised |-> FALSE, value |-> value]
Raised(message) == [raised |-> TRUE, error |-> message]

(* UnitSet.convert; to_unit_arg is the optional argument to_unit *)
UnitSet_convert(self, magnitude, unit_name, to_unit_arg) ==
    LET u == match_unit(self, unit_name) IN
    IF u = None THEN Raised("can't match the present unit given")
    ELSE
        LET newmag == convert_to_SI(u, magnitude) IN
        IF to_unit_arg = Omitted THEN Returned(<<newmag, self.SI_unit>>)
        ELSE
            LET to_unit == to_unit_arg[1]
                to_u == match_unit(self, to_unit)
            IN
            IF to_u # None THEN Returned(<<convert_from_SI(to_u, newmag), to_unit>>)
            ELSE Raised("can't match the present unit given")

(***************************************************************************)
(* Ingredient: a name, its aliases, an optional density in kg/L.  Every    *)
(* ingredient holds a reference to the one shared UnitsHandler, the state  *)
(* variable uh.                                                            *)
(***************************************************************************)
(* Ingredient.__init__ *)
Ingredient(name, allnames, density) ==
    [name |-> name,
     allnames |-> IF allnames = None THEN {name} ELSE allnames,
     density |-> density]

(* Ingredient.match_string *)
match_string(self, string) == \E n \in self.allnames : ReSearch(n, string)

(* a plausible slip: the check of to_unit for ambiguity left out *)
Ingredient_convert_checks_no_to_ambiguity(v1, m1, v2, m2) ==
    IF v1 = None /\ m1 = None THEN Raised("couldn't find the from_unit")
    ELSE IF v2 = None /\ m2 = None THEN Raised("couldn't find the to_unit")
    ELSE IF v1 # None /\ m1 # None THEN Raised("ambiguity in from_unit")
    ELSE None

(* Ingredient.convert, the four checks on the lookups: the error raised,   *)
(* or None when the call goes on                                           *)
Ingredient_convert_checks(v1, m1, v2, m2) ==
    IF v1 = None /\ m1 = None THEN Raised("couldn't find the from_unit")
    ELSE IF v2 = None /\ m2 = None THEN Raised("couldn't find the to_unit")
    ELSE IF v1 # None /\ m1 # None THEN Raised("ambiguity in from_unit")
    ELSE IF v2 # None /\ m2 # None THEN Raised("ambiguity in to_unit")
    ELSE None

(* a plausible slip: the density multiplied in where it is divided out *)
Ingredient_convert_bridge_multiplies(self, magnitude, v1, m1, v2, m2, to_unit) ==
    IF v1 = None
    THEN LET newmag == convert_to_SI(m1, magnitude) IN
         IF v2 = None
         THEN Returned(<<convert_from_SI(m2, newmag), to_unit>>)
         ELSE IF self.density = None
              THEN Raised("density not specified, cannot convert")
              ELSE Returned(<<convert_from_SI(v2, RMul(newmag, self.density)), to_unit>>)
    ELSE LET newmag == convert_to_SI(v1, magnitude) IN
         IF v2 = None
         THEN IF self.density = None
              THEN Raised("density not specified, cannot convert")
              ELSE Returned(<<convert_from_SI(m2, RMul(newmag, self.density)), to_unit>>)
         ELSE Returned(<<convert_from_SI(v2, newmag), to_unit>>)

(* a plausible slip: the density demanded before the categories are told   *)
(* apart                                                                   *)
Ingredient_convert_bridge_density_first(self, magnitude, v1, m1, v2, m2, to_unit) ==
    IF self.density = None THEN Raised("density not specified, cannot convert")
    ELSE IF v1 = None
    THEN LET newmag == convert_to_SI(m1, magnitude) IN
         IF v2 = None
         THEN Returned(<<convert_from_SI(m2, newmag), to_unit>>)
         ELSE Returned(<<convert_from_SI(v2, RDiv(newmag, self.density)), to_unit>>)
    ELSE LET newmag == convert_to_SI(v1, magnitude) IN
         IF v2 = None
         THEN Returned(<<convert_from_SI(m2, RMul(newmag, self.density)), to_unit>>)
         ELSE Returned(<<convert_from_SI(v2, newmag), to_unit>>)

(* Ingredient.convert, past the checks: same category, or bridged through  *)
(* the density                                                             *)
Ingredient_convert_bridge(self, magnitude, v1, m1, v2, m2, to_unit) ==
    IF v1 = None
    THEN LET newmag == convert_to_SI(m1, magnitude) IN
         IF v2 = None
         THEN Returned(<<convert_from_SI(m2, newmag), to_unit>>)
         ELSE IF self.density = None
              THEN Raised("density not specified, cannot convert")
              ELSE Returned(<<convert_from_SI(v2, RDiv(newmag, self.density)), to_unit>>)
    ELSE LET newmag == convert_to_SI(v1, magnitude) IN
         IF v2 = None
         THEN IF self.density = None
              THEN Raised("density not specified, cannot convert")
              ELSE Returned(<<convert_from_SI(m2, RMul(newmag, self.density)), to_unit>>)
         ELSE Returned(<<convert_from_SI(v2, newmag), to_unit>>)

(* Ingredient.convert; to_unit_arg is the optional argument to_unit *)
Ingredient_convert(self, magnitude, from_unit, to_unit_arg) ==
    LET to_unit == IF to_unit_arg = Omitted THEN "liter" ELSE to_unit_arg[1]
        v1 == match_unit(uh.volume, from_unit)
        m1 == match_unit(uh.mass, from_unit)
        v2 == match_unit(uh.volume, to_unit)
        m2 == match_unit(uh.mass, to_unit)
        error == Ingredient_convert_checks(v1, m1, v2, m2)
    IN
    IF error # None THEN error
    ELSE Ingredient_convert_bridge(self, magnitude, v1, m1, v2, m2, to_unit)

(***************************************************************************)
(* IngredientsHandler: the ordered registry of ingredients.                *)
(***************************************************************************)
(* a plausible slip: the new ingredient put in front *)
add_ingredient_front(list, name, density) ==
    <<Ingredient(name, None, density)>> \o list

(* IngredientsHandler.add_ingredient: the list after the call *)
add_ingredient(list, name, density) ==
    Append(list, Ingredient(name, None, density))

(* IngredientsHandler.__init__: the six add_ingredient calls *)
SeedIngredients ==
    add_ingredient(
      add_ingredient(
        add_ingredient(
          add_ingredient(
            add_ingredient(
              add_ingredient(<<>>, "flour", Rat(55, 100)),
              "salt", Rat(12, 10)),
            "sugar", Rat(8, 10)),
          "water", Rat(1, 1)),
        "butter", Rat(9, 10)),
      "vanilla", None)

RECURSIVE match_name_from(_, _, _)
match_name_from(list, k, name) ==
    IF k > Len(list) THEN None
    ELSE IF match_string(list[k], name) THEN list[k]
    ELSE match_name_from(list, k + 1, name)

RECURSIVE match_name_last_from(_, _, _)
match_name_last_from(list, k, name) ==
    IF k < 1 THEN None
    ELSE IF match_string(list[k], name) THEN list[k]
    ELSE match_name_last_from(list, k - 1, name)

(* a plausible slip: the latest match returned, not the earliest *)
match_name_latest(name) == match_name_last_from(ingredients, Len(ingredients), name)

(* IngredientsHandler.match_name *)
match_name(name) == match_name_from(ingredients, 1, name)

(* IngredientsHandler.convert *)
IngredientsHandler_convert(name, magnitude, from_unit, to_unit) ==
    LET i == match_name(name) IN
    IF i = None THEN Raised("can't match ingredient name")
    ELSE Ingredient_convert(i, magnitude, from_unit, Given(to_unit))

(***************************************************************************)
(* Bounds and the inputs the callers draw from.                            *)
(***************************************************************************)
MaxAdds == 1
MaxMag == 2

Range(f) == {f[i] : i \in DOMAIN f}

Magnitudes == {Rat(k, d) : k \in (-1)..MaxMag, d \in {1, 2}}

SetMagnitudes == Magnitudes \cup {Rat(100, 1)}

Densities == {None, Rat(92, 100)}

AddNames == {"sugar", "brown sugar", "oil"}

FindNames ==
    {"flour", "sugar", "brown sugar", "oil", "salted butter", "vanilla", "cinnamon", "Flour"}

QuantityNames == {"flour", "vanilla", "oil", "cinnamon"}
QuantityMagnitudes == {Rat(2, 1), Rat(1, 2)}
QuantityFromUnits == {"cup", "xyz"}
QuantityToUnits == {"gram", "liter"}

IngredientUnitTexts ==
    {"cup", "cups", "cup of", "c", "liter", "l", "T", "t", "oz", "gram", "grams", "g", "G",
     "kg", "lb", "xyz", "celsius"}

AllUnits ==
    Range(VolumeUnits) \cup Range(MassUnits) \cup Range(TemperatureUnits) \cup Range(MiscUnits)

AllAliases == UNION {u.allnames : u \in AllUnits}

MatchTexts ==
    AllAliases
    \cup {n \o suffix : n \in AllAliases, suffix \in {"s", ".", "s.", " of"}}
    \cup {"x" \o n : n \in AllAliases}
    \cup {"", "CUP", "CUPS", "Cups", "cupS", "cupx", "cup.of", "cups. of", "cup_", "a cup",
          "TBSP", "TSP", "Ts", "flxdr", "flXoz", "fl-pt", "celsius", "kelvin", "fahrenheit",
          "cup\n", "cup\nof", "fl\ndr", "cup" \o Backspace \o "of", "cups." \o Backspace}

SetNames == {"volume", "mass", "temperature"}

SetTexts ==
    {"celsius", "kelvin", "C", "degC", "F", "deg F", "cup", "cups", "liter", "ml", "T", "t",
     "gram", "kg", "lb", "g", "xyz"}

Pending == [pending |-> TRUE]

(***************************************************************************)
(* Spec: an IngredientsHandler over a UnitsHandler, and its callers.       *)
(***************************************************************************)
Init ==
    /\ uh = UnitsHandler
    /\ ingredients = SeedIngredients
    /\ call = [op |-> "__init__"]

(* a caller runs IngredientsHandler.add_ingredient(name, density) *)
AddIngredient ==
    \E name \in AddNames, density \in Densities :
        /\ Len(ingredients) < Len(SeedIngredients) + MaxAdds
        /\ ingredients' = add_ingredient(ingredients, name, density)
        /\ call' = [op |-> "add_ingredient", name |-> name, density |-> density,
                    result |-> Returned(None)]
        /\ UNCHANGED uh

(* a caller runs IngredientsHandler.match_name(name) *)
MatchName ==
    \E name \in FindNames :
        /\ call' = [op |-> "match_name", name |-> name, result |-> Returned(match_name(name))]
        /\ UNCHANGED <<uh, ingredients>>

(* a caller runs IngredientsHandler.convert(name, magnitude, from_unit, to_unit) *)
ConvertQuantity ==
    \E name \in QuantityNames, magnitude \in QuantityMagnitudes,
       from_unit \in QuantityFromUnits, to_unit \in QuantityToUnits :
        /\ call' = [op |-> "convert", name |-> name, magnitude |-> magnitude,
                    from_unit |-> from_unit, to_unit |-> to_unit,
                    result |-> IngredientsHandler_convert(name, magnitude, from_unit, to_unit)]
        /\ UNCHANGED <<uh, ingredients>>

Next == AddIngredient \/ MatchName \/ ConvertQuantity

Spec == Init /\ [][Next]_vars

(***************************************************************************)
(* SpecIngredient: Ingredient.convert as a function of its inputs.         *)
(***************************************************************************)
InitIngredient ==
    /\ uh = UnitsHandler
    /\ ingredients = SeedIngredients
    /\ \E self \in Range(SeedIngredients), magnitude \in Magnitudes,
          from_unit \in IngredientUnitTexts,
          to_unit \in {Given(t) : t \in IngredientUnitTexts} \cup {Omitted} :
        call = [op |-> "Ingredient.convert", self |-> self, magnitude |-> magnitude,
                from_unit |-> from_unit, to_unit |-> to_unit, result |-> Pending]

IngredientConvert ==
    /\ call.op = "Ingredient.convert"
    /\ call.result = Pending
    /\ call' = [call EXCEPT !.result =
                   Ingredient_convert(call.self, call.magnitude, call.from_unit, call.to_unit)]
    /\ UNCHANGED <<uh, ingredients>>

NextIngredient == IngredientConvert

SpecIngredient == InitIngredient /\ [][NextIngredient]_vars

(***************************************************************************)
(* SpecUnits: Unit and UnitSet operations as functions of their inputs.    *)
(***************************************************************************)
InitUnits ==
    /\ uh = UnitsHandler
    /\ ingredients = SeedIngredients
    /\ \/ \E self \in AllUnits, string \in MatchTexts :
            call = [op |-> "Unit.match", self |-> self, string |-> string, result |-> Pending]
       \/ \E set \in SetNames, string \in MatchTexts :
            call = [op |-> "UnitSet.match_unit", set |-> set, string |-> string,
                    result |-> Pending]
       \/ \E self \in AllUnits, magnitude \in Magnitudes :
            call = [op |-> "Unit.to_from_SI", self |-> self, magnitude |-> magnitude,
                    result |-> Pending]
       \/ \E set \in SetNames, magnitude \in SetMagnitudes,
             unit_name \in SetTexts, to_unit \in {Given(t) : t \in SetTexts} \cup {Omitted} :
            call = [op |-> "UnitSet.convert", set |-> set, magnitude |-> magnitude,
                    unit_name |-> unit_name, to_unit |-> to_unit, result |-> Pending]

UnitMatch ==
    /\ call.op = "Unit.match"
    /\ call.result = Pending
    /\ call' = [call EXCEPT !.result = Returned(match(call.self, call.string))]
    /\ UNCHANGED <<uh, ingredients>>

MatchUnit ==
    /\ call.op = "UnitSet.match_unit"
    /\ call.result = Pending
    /\ call' = [call EXCEPT !.result = Returned(match_unit(uh[call.set], call.string))]
    /\ UNCHANGED <<uh, ingredients>>

(* convert_from_SI applied to the result of convert_to_SI *)
ToFromSI ==
    /\ call.op = "Unit.to_from_SI"
    /\ call.result = Pending
    /\ call' = [call EXCEPT !.result =
                   Returned(convert_from_SI(call.self, convert_to_SI(call.self, call.magnitude)))]
    /\ UNCHANGED <<uh, ingredients>>

UnitSetConvert ==
    /\ call.op = "UnitSet.convert"
    /\ call.result = Pending
    /\ call' = [call EXCEPT !.result =
                   UnitSet_convert(uh[call.set], call.magnitude, call.unit_name, call.to_unit)]
    /\ UNCHANGED <<uh, ingredients>>

(* the caller of a UnitSet.convert that returned converts the result back *)
UnitSetConvertBack ==
    /\ call.op = "UnitSet.convert"
    /\ call.result # Pending
    /\ ~call.result.raised
    /\ call.to_unit # Omitted
    /\ call' = [op |-> "UnitSet.convert back", set |-> call.set, origin |-> call.magnitude,
                magnitude |-> call.result.value[1], unit_name |-> call.result.value[2],
                to_unit |-> Given(call.unit_name),
                result |-> UnitSet_convert(uh[call.set], call.result.value[1],
                                           call.result.value[2], Given(call.unit_name))]
    /\ UNCHANGED <<uh, ingredients>>

NextUnits == UnitMatch \/ MatchUnit \/ ToFromSI \/ UnitSetConvert \/ UnitSetConvertBack

SpecUnits == InitUnits /\ [][NextUnits]_vars

(***************************************************************************)
(* The properties.                                                         *)
(***************************************************************************)
Done(op) == call.op = op /\ call.result # Pending

UnmatchedUnitErrors == {"couldn't find the from_unit", "couldn't find the to_unit"}
AmbiguousUnitErrors == {"ambiguity in from_unit", "ambiguity in to_unit"}
MissingDensityErrors == {"density not specified, cannot convert"}

Fails(result, errors) == result.raised /\ result.error \in errors

InVolume(text) == match_unit(uh.volume, text) # None
InMass(text) == match_unit(uh.mass, text) # None
OneCategory(text) == InVolume(text) # InMass(text)
Unmatched(text) == ~InVolume(text) /\ ~InMass(text)
Ambiguous(text) == InVolume(text) /\ InMass(text)

(* the unit text a call of Ingredient.convert converts to *)
ToUnit == IF call.to_unit = Omitted THEN "liter" ELSE call.to_unit[1]

UnitNamed(set, name) == CHOOSE u \in Range(set.units) : u.name = name

(* C1: for unit texts that each resolve to exactly one category,           *)
(* Ingredient.convert returns, with the target text: volume to mass,       *)
(* from_SI of the mass unit applied to (to_SI of the volume unit applied   *)
(* to m) * d; mass to volume, from_SI of the volume unit applied to (to_SI *)
(* of the mass unit applied to m) / d; same category, from_SI of the       *)
(* target applied to to_SI of the source, whatever the density.  For       *)
(* flour, 2, "cup", "gram" that is cup_to_liter(2) * 0.55 * 1000.          *)
C1_DensityBridging ==
    Done("Ingredient.convert") =>
        LET f == call.from_unit
            t == ToUnit
            m == call.magnitude
            d == call.self.density
            vf == match_unit(uh.volume, f)
            mf == match_unit(uh.mass, f)
            vt == match_unit(uh.volume, t)
            mt == match_unit(uh.mass, t)
        IN
        /\ (OneCategory(f) /\ OneCategory(t)) =>
            /\ (InVolume(f) /\ InMass(t) /\ d # None) =>
                call.result = Returned(<<convert_from_SI(mt, RMul(convert_to_SI(vf, m), d)), t>>)
            /\ (InMass(f) /\ InVolume(t) /\ d # None) =>
                call.result = Returned(<<convert_from_SI(vt, RDiv(convert_to_SI(mf, m), d)), t>>)
            /\ (InVolume(f) /\ InVolume(t)) =>
                call.result = Returned(<<convert_from_SI(vt, convert_to_SI(vf, m)), t>>)
            /\ (InMass(f) /\ InMass(t)) =>
                call.result = Returned(<<convert_from_SI(mt, convert_to_SI(mf, m)), t>>)
        /\ (call.self.name = "flour" /\ m = Rat(2, 1) /\ f = "cup" /\ call.to_unit = Given("gram")) =>
            call.result =
                Returned(<<RMul(RMul(convert_to_SI(UnitNamed(uh.volume, "cup"), Rat(2, 1)),
                                     Rat(55, 100)), Rat(1000, 1)), "gram">>)

C1_Witness ==
    /\ Done("Ingredient.convert")
    /\ call.self.name = "flour" /\ call.self.density = Rat(55, 100)
    /\ call.magnitude = Rat(2, 1) /\ call.from_unit = "cup" /\ call.to_unit = Given("gram")
    /\ call.result = Returned(<<Rat(260249, 1000), "gram">>)

(* C2: for unit texts that each resolve to exactly one category,           *)
(* Ingredient.convert fails with the missing-density error exactly when    *)
(* the two categories differ and the density is None; a same-category      *)
(* conversion succeeds without a density (vanilla: "cup" to "gram" fails,  *)
(* "cup" to "liter" succeeds).                                             *)
C2_MissingDensity ==
    Done("Ingredient.convert") =>
        LET f == call.from_unit
            t == ToUnit
            crossing == InVolume(f) # InVolume(t)
        IN
        /\ (OneCategory(f) /\ OneCategory(t)) =>
            /\ Fails(call.result, MissingDensityErrors) <=> (crossing /\ call.self.density = None)
            /\ ~crossing => ~call.result.raised
        /\ (call.self.name = "vanilla" /\ f = "cup" /\ call.to_unit = Given("gram")) =>
            Fails(call.result, MissingDensityErrors)
        /\ (call.self.name = "vanilla" /\ f = "cup" /\ call.to_unit = Given("liter")) =>
            ~call.result.raised

C2_Witness ==
    /\ Done("Ingredient.convert")
    /\ call.self.name = "vanilla" /\ call.self.density = None
    /\ call.from_unit = "cup" /\ call.to_unit = Given("gram")
    /\ call.result = Raised("density not specified, cannot convert")

(* C3, as claimed: Unit.match(text) is true exactly when text begins with  *)
(* one of the unit's aliases (compared per the case-sensitivity flag),     *)
(* optionally followed by "s" and/or ".", and the matched part ends at     *)
(* end-of-string or at a word boundary.                                    *)
WordChars == Chars(UpperLetters) \cup Chars(LowerLetters) \cup Chars(Digits) \cup {"_"}

WordBoundary(string, pos) ==
    LET before == pos > 1 /\ pos - 1 <= Len(string) /\ Char(string, pos - 1) \in WordChars
        after == pos <= Len(string) /\ Char(string, pos) \in WordChars
    IN  before # after

SameChar(a, b, ignorecase) == IF ignorecase THEN FoldChar(a) = FoldChar(b) ELSE a = b

BeginsWith(string, n, ignorecase) ==
    /\ Len(n) <= Len(string)
    /\ \A i \in 1..Len(n) : SameChar(Char(n, i), Char(string, i), ignorecase)

ClaimedMatch(self, string) ==
    \E n \in self.allnames :
        /\ BeginsWith(string, n, ~self.case_sensitive)
        /\ \E s \in {0, 1}, d \in {0, 1} :
            LET e == Len(n) + 1 IN
            /\ s = 1 => (e <= Len(string) /\ SameChar("s", Char(string, e), ~self.case_sensitive))
            /\ d = 1 => (e + s <= Len(string) /\ Char(string, e + s) = ".")
            /\ (e + s + d = Len(string) + 1 \/ WordBoundary(string, e + s + d))

C4_CelsiusToKelvin ==
    (/\ Done("UnitSet.convert")
     /\ call.set = "temperature"
     /\ call.magnitude \in {Zero, Rat(100, 1)}
     /\ call.unit_name = "celsius"
     /\ call.to_unit = Given("kelvin")) =>
        LET c == match_unit(uh.temperature, "celsius")
            k == match_unit(uh.temperature, "kelvin")
        IN
        /\ c # None /\ c.name = "celsius" /\ c.SI_offset = Rat(27315, 100) /\ c.SI_ratio = One
        /\ k # None /\ k.name = "kelvin" /\ k.SI_offset = Zero /\ k.SI_ratio = One
        /\ call.magnitude = Zero => call.result = Returned(<<Rat(27315, 100), "kelvin">>)
        /\ call.magnitude = Rat(100, 1) => call.result = Returned(<<Rat(37315, 100), "kelvin">>)

(* C5: match_name(name) returns the earliest-inserted ingredient whose     *)
(* match_string(name) is true, the six built-ins in seed order coming      *)
(* before every later addition, and None when no ingredient matches.       *)
C5_FirstMatchWins ==
    call.op = "match_name" =>
        LET matching == {k \in 1..Len(ingredients) : match_string(ingredients[k], call.name)}
        IN
        /\ SubSeq(ingredients, 1, Len(SeedIngredients)) = SeedIngredients
        /\ matching = {} => call.result.value = None
        /\ matching # {} =>
            \E k \in matching :
                /\ \A j \in matching : k <= j
                /\ call.result.value = ingredients[k]

C5_Witness ==
    /\ call.op = "match_name"
    /\ call.name = "brown sugar"
    /\ Len(ingredients) > Len(SeedIngredients)
    /\ ingredients[Len(ingredients)].name = "brown sugar"
    /\ call.result.value = SeedIngredients[3]

(* C6, as claimed: Ingredient.convert fails with the ambiguous-unit error  *)
(* whenever from_unit or to_unit is matched by both sets, whatever the     *)
(* other text is, and with the unmatched-unit error whenever from_unit or  *)
(* to_unit is matched by neither set.                                      *)
C6_AsClaimed ==
    Done("Ingredient.convert") =>
        /\ (Ambiguous(call.from_unit) \/ Ambiguous(ToUnit)) =>
            Fails(call.result, AmbiguousUnitErrors)
        /\ (Unmatched(call.from_unit) \/ Unmatched(ToUnit)) =>
            Fails(call.result, UnmatchedUnitErrors)

(* C6, amended: Ingredient.convert fails with the unmatched-unit error     *)
(* whenever from_unit or to_unit is matched by neither set, and with the   *)
(* ambiguous-unit error whenever from_unit or to_unit is matched by both   *)
(* sets and neither text is matched by neither set.                        *)
C6_UnmatchedBeforeAmbiguous ==
    Done("Ingredient.convert") =>
        /\ (Unmatched(call.from_unit) \/ Unmatched(ToUnit)) =>
            Fails(call.result, UnmatchedUnitErrors)
        /\ (/\ Ambiguous(call.from_unit) \/ Ambiguous(ToUnit)
            /\ ~Unmatched(call.from_unit)
            /\ ~Unmatched(ToUnit)) =>
            Fails(call.result, AmbiguousUnitErrors)

C6_Witness ==
    /\ Done("Ingredient.convert")
    /\ call.from_unit = "kg" /\ call.to_unit = Given("g")
    /\ Ambiguous("g") /\ OneCategory("kg")
    /\ call.result = Raised("ambiguity in to_unit")

(* C7: in the built-in volume set match_unit("T") is tablespoon,           *)
(* match_unit("t") is teaspoon and match_unit("TBSP") is not teaspoon;     *)
(* teaspoon and tablespoon are the case-sensitive units, every other unit  *)
(* is case-insensitive, and no unit placed before them matches "T" or "t". *)
C7_CaseSensitivity ==
    (Done("UnitSet.match_unit") /\ call.set = "volume") =>
        LET u == call.result.value
            units == uh.volume.units
        IN
        /\ call.string = "T" => (u # None /\ u.name = "tablespoon")
        /\ call.string = "t" => (u # None /\ u.name = "teaspoon")
        /\ call.string = "TBSP" => (u = None \/ u.name # "teaspoon")
        /\ \A set \in SetNames : \A x \in Range(uh[set].units) :
            x.case_sensitive <=> x.name \in {"teaspoon", "tablespoon"}
        /\ \A k \in 1..Len(units) :
            /\ units[k].name = "tablespoon" => \A j \in 1..(k - 1) : ~match(units[j], "T")
            /\ units[k].name = "teaspoon" => \A j \in 1..(k - 1) : ~match(units[j], "t")

C7_Witness ==
    /\ Done("UnitSet.match_unit")
    /\ call.set = "volume"
    /\ call.string = "T"
    /\ call.result.value # None
    /\ call.result.value.name = "tablespoon"
    /\ call.result.value.case_sensitive

(* C8: for every unit with a ratio other than 0 and every magnitude m > 0, *)
(* from_SI(to_SI(m)) = m; for every pair of units of one set, m taken     *)
(* from the one to the other and back is m; and a UnitSet.convert of m     *)
(* from one unit text to another of the same set, followed by the          *)
(* UnitSet.convert of the result back, returns m.                          *)
C8_RoundTrip ==
    /\ (Done("Unit.to_from_SI") /\ call.self.SI_ratio # Zero /\ call.magnitude.num > 0) =>
        /\ call.result = Returned(call.magnitude)
        /\ \A set \in SetNames :
            call.self \in Range(uh[set].units) =>
                \A v \in Range(uh[set].units) :
                    v.SI_ratio # Zero =>
                        convert_from_SI(call.self,
                            convert_to_SI(v,
                                convert_from_SI(v, convert_to_SI(call.self, call.magnitude))))
                        = call.magnitude
    /\ (call.op = "UnitSet.convert back" /\ call.origin.num > 0) =>
        call.result = Returned(<<call.origin, call.to_unit[1]>>)

C8_Witness ==
    /\ call.op = "UnitSet.convert back"
    /\ call.set = "temperature"
    /\ call.origin = Rat(100, 1)
    /\ call.unit_name = "C"
    /\ call.to_unit = Given("F")
    /\ call.magnitude # call.origin
    /\ call.result = Returned(<<Rat(100, 1), "F">>)

(* C9, as claimed: no unit text is matched both by the volume set and by   *)
(* the mass set, so Ingredient.convert over the built-in tables never ends *)
(* in the ambiguous-unit error.                                            *)
C9_NoSharedAlias ==
    Done("Ingredient.convert") =>
        /\ ~Ambiguous(call.from_unit)
        /\ ~Ambiguous(ToUnit)
        /\ ~Fails(call.result, AmbiguousUnitErrors)

=============================================================================
